---- MODULE Spec2Model ----
(***************************************************************************)
(* Raw-Ethernet PubSub channel of open62541 on lwIP                        *)
(* (plugins/ua_pubsub_ethernet_lwip.c): hardware-address codec, channel    *)
(* life cycle (open, regist, unregist, send, receive, close) and the       *)
(* channel factory, over an abstract heap, pbuf pool and netif list.       *)
(***************************************************************************)
EXTENDS Integers, Sequences, FiniteSets, TLC

(* ------------------------------------------------------------------ *)
(* Bounds of the model                                                  *)
(* ------------------------------------------------------------------ *)
\* number of channel references the surrounding PubSub engine holds
MaxChannels == 2
\* number of blocks the heap can hold (UA_calloc returns NULL when it is full)
MaxBlocks == 4
\* size of the lwIP pbuf pool (pbuf_alloc returns NULL when it is used up)
MaxPbufs == 2

(* ------------------------------------------------------------------ *)
(* Program constants                                                    *)
(* ------------------------------------------------------------------ *)
ETH_ALEN == 6
\* 0xb62c
ETHERTYPE_UADP == 46636
\* 0x8100
ETHERTYPE_VLAN == 33024
\* sizeof(struct eth_vlan_hdr): tpid and prio_vid, two u16_t
SIZEOF_VLAN_HDR == 4
\* pbuf flag written to p->type_internal before transmission (0x80)
PBUF_TYPE_FLAG == 128
\* bit position of the priority code point inside the tag control info
PRIO_SHIFT == 13
\* lwIP NETIF_NO_INDEX: netif_name_to_index found no interface
NETIF_NO_INDEX == 0

UA_STATUSCODE_GOOD == "GOOD"
UA_STATUSCODE_BADINTERNALERROR == "BADINTERNALERROR"

UA_PUBSUB_CHANNEL_RDY == "RDY"
UA_PUBSUB_CHANNEL_PUB == "PUB"
UA_PUBSUB_CHANNEL_SUB == "SUB"
UA_PUBSUB_CHANNEL_PUB_SUB == "PUB_SUB"
UA_PUBSUB_CHANNEL_ERROR == "ERROR"
UA_PUBSUB_CHANNEL_CLOSED == "CLOSED"
UA_PubSubChannelState ==
    { UA_PUBSUB_CHANNEL_RDY, UA_PUBSUB_CHANNEL_PUB, UA_PUBSUB_CHANNEL_SUB,
      UA_PUBSUB_CHANNEL_PUB_SUB, UA_PUBSUB_CHANNEL_ERROR, UA_PUBSUB_CHANNEL_CLOSED }

(* ------------------------------------------------------------------ *)
(* Fixed-width arithmetic                                               *)
(* ------------------------------------------------------------------ *)
\* (UA_UInt16) x, (u16_t) x
U16(x) == x % 65536
\* A UA_UInt32 is kept as its two 16-bit halves, value = hi * 65536 + lo,
\* so that its arithmetic wraps at 2^32 as in the program
U32Zero == [hi |-> 0, lo |-> 0]
\* (n * base) + d in UA_UInt32 arithmetic, base <= 16 and d < base
U32MulAdd(n, base, d) ==
    [hi |-> (n.hi * base + ((n.lo * base + d) \div 65536)) % 65536,
     lo |-> (n.lo * base + d) % 65536]
\* value > (long)0xff
U32Above(n, k) == n.hi > 0 \/ n.lo > k
\* (UA_Byte) value
U32ToByte(n) == n.lo % 256

RECURSIVE BitOr(_, _)
\* x | y on naturals
BitOr(x, y) ==
    IF x = 0 THEN y
    ELSE IF y = 0 THEN x
    ELSE (IF (x % 2 = 1) \/ (y % 2 = 1) THEN 1 ELSE 0) + 2 * BitOr(x \div 2, y \div 2)

\* x & 1
Bit0(x) == x % 2

\* x << n in int arithmetic (no overflow for a promoted UA_Byte and n = 13)
ShiftLeft(x, n) == x * 2^n

\* htons(x) stored to memory: the two bytes in network (big-endian) order
htons(x) == << U16(x) \div 256, U16(x) % 256 >>

(* ------------------------------------------------------------------ *)
(* Strings are sequences of one-character strings                       *)
(* ------------------------------------------------------------------ *)
DecDigits == << "0", "1", "2", "3", "4", "5", "6", "7", "8", "9" >>
LowerHex == DecDigits \o << "a", "b", "c", "d", "e", "f" >>
UpperHex == DecDigits \o << "A", "B", "C", "D", "E", "F" >>

\* the value of each character that is a digit in some base up to 16
DigitTable ==
    [c \in { LowerHex[i] : i \in 1..16 } \cup { UpperHex[i] : i \in 1..16 } |->
        (CHOOSE i \in 1..16 : LowerHex[i] = c \/ UpperHex[i] = c) - 1]

\* c is a digit of the given base
IsDigit(c, base) == c \in DOMAIN DigitTable /\ DigitTable[c] < base

RECURSIVE readNumberLoop(_, _, _, _, _)
\* the loop of UA_readNumberWithBase over buf[from + 1 ..], progress digits in
readNumberLoop(buf, from, base, progress, n) ==
    IF from + progress < Len(buf) /\ IsDigit(buf[from + progress + 1], base)
    THEN readNumberLoop(buf, from, base, progress + 1,
                        U32MulAdd(n, base, DigitTable[buf[from + progress + 1]]))
    ELSE [progress |-> progress, value |-> n]

\* UA_readNumberWithBase(&data[from], length - from, &value, base): digits
\* read and the UA_UInt32 accumulated from them
UA_readNumberWithBase(buf, from, base) == readNumberLoop(buf, from, base, 0, U32Zero)

\* two hexadecimal digits of a byte
HexPair(b, upper) ==
    LET digits == IF upper THEN UpperHex ELSE LowerHex
    IN  << digits[(b \div 16) + 1], digits[(b % 16) + 1] >>

RECURSIVE FormatFrom(_, _, _)
FormatFrom(mac, i, upper) ==
    IF i > Len(mac) THEN << >>
    ELSE (IF i > 1 THEN << "-" >> ELSE << >>) \o HexPair(mac[i], upper)
         \o FormatFrom(mac, i + 1, upper)

\* the canonical text of a hardware address: hex pairs separated by hyphens
FormatHardwareAddress(mac, upper) == FormatFrom(mac, 1, upper)

(* ------------------------------------------------------------------ *)
(* Hardware address codec                                               *)
(* ------------------------------------------------------------------ *)
ZeroMac == [i \in 1..ETH_ALEN |-> 0]

\* the check after the loop asking for the loop to have run to its end
GroupCountOk_LoopEnd(idx) == idx = ETH_ALEN

\* the check after the loop: the loop was left at the sixth group
GroupCountOk(idx) == idx = ETH_ALEN - 1

\* a group was read and fits a byte
GroupOk(progress, value) == ~(progress = 0 \/ U32Above(value, 255))

RECURSIVE parseLoop(_, _, _, _)
parseLoop(target, mac, curr, idx) ==
    IF ~(idx < ETH_ALEN)
    THEN [status |-> IF GroupCountOk(idx) THEN UA_STATUSCODE_GOOD
                     ELSE UA_STATUSCODE_BADINTERNALERROR,
          mac |-> mac]
    ELSE LET r == UA_readNumberWithBase(target, curr, 16)
         IN  IF ~GroupOk(r.progress, r.value)
             THEN [status |-> UA_STATUSCODE_BADINTERNALERROR, mac |-> mac]
             ELSE LET mac2 == [mac EXCEPT ![idx + 1] = U32ToByte(r.value)]
                      curr2 == curr + r.progress
                  IN  IF curr2 = Len(target)
                      THEN [status |-> IF GroupCountOk(idx) THEN UA_STATUSCODE_GOOD
                                       ELSE UA_STATUSCODE_BADINTERNALERROR,
                            mac |-> mac2]
                      ELSE IF target[curr2 + 1] # "-"
                      THEN [status |-> UA_STATUSCODE_BADINTERNALERROR, mac |-> mac2]
                      ELSE parseLoop(target, mac2, curr2 + 1, idx + 1)

\* the status and the destination buffer as the call leaves it
UA_parseHardwareAddress(target, destinationMac) ==
    parseLoop(target, destinationMac, 0, 0)

\* is_multicast_address without the loop that excludes the broadcast address
is_multicast_address_Bit0(address) == Bit0(address[1]) = 1

is_multicast_address(address) ==
    IF Bit0(address[1]) = 0 THEN FALSE
    ELSE IF \E i \in 1..ETH_ALEN : address[i] # 255 THEN TRUE
    ELSE FALSE

(* ------------------------------------------------------------------ *)
(* Inputs: interfaces, connection configurations, payloads              *)
(* ------------------------------------------------------------------ *)
\* the lwIP interface list: name, index (netif num + 1) and hardware address
NetifXe == [name |-> "xe", index |-> 1, hwaddr |-> << 0, 10, 53, 0, 1, 2 >>]
NetifEn == [name |-> "en", index |-> 2, hwaddr |-> << 0, 10, 53, 0, 1, 3 >>]
NetifLists == { {}, { NetifXe, NetifEn } }

MacMulticast == << 1, 27, 25, 0, 0, 0 >>
MacUnicast == << 2, 0, 0, 0, 0, 1 >>
MacBroadcast == [i \in 1..ETH_ALEN |-> 255]

\* an opc.eth URL, kept as what it is made of: target text, VLAN id, priority
Url(target, vid, prio) == [wellFormed |-> TRUE, target |-> target, vid |-> vid, prio |-> prio]
BadUrl == [wellFormed |-> FALSE, target |-> << >>, vid |-> 0, prio |-> 0]

\* connectionConfig->address: a variant holding a UA_NetworkAddressUrlDataType,
\* or a variant of another type
Address(if, url) == [type |-> "NetworkAddressUrlDataType", networkInterface |-> if, url |-> url]
OtherAddress == [type |-> "String", networkInterface |-> "", url |-> BadUrl]

ConnectionConfigs ==
    << [address |-> Address("xe", Url(FormatHardwareAddress(MacMulticast, TRUE), 0, 0))],
       [address |-> Address("en", Url(FormatHardwareAddress(MacUnicast, FALSE), 100, 5))],
       [address |-> Address("xe", Url(FormatHardwareAddress(MacBroadcast, TRUE), 8192, 5))],
       [address |-> Address("xe", Url(<< "0", "1", "-", "2", "3", "-", "4", "5" >>, 0, 0))],
       [address |-> Address("xe", BadUrl)],
       [address |-> OtherAddress] >>
ConfigIds == 1..Len(ConnectionConfigs)

\* a UA_ByteString: its length and its bytes, data[i] = (seed + i) mod 256
ByteString(length, seed) == [length |-> length, seed |-> seed]
DataByte(buf, i) == (buf.seed + i) % 256
Payloads == { ByteString(46, 7), ByteString(65539, 7) }

(* ------------------------------------------------------------------ *)
(* Collaborators outside this file                                      *)
(* ------------------------------------------------------------------ *)
\* UA_Variant_hasScalarType(&address, &UA_TYPES[NETWORKADDRESSURLDATATYPE])
UA_Variant_hasScalarType(address) == address.type = "NetworkAddressUrlDataType"

\* UA_parseEndpointUrlEthernet(&url, &target, &vid, &prio): zero on success
UA_parseEndpointUrlEthernet(url) ==
    IF url.wellFormed
    THEN [status |-> UA_STATUSCODE_GOOD, target |-> url.target,
          vid |-> U16(url.vid), prio |-> url.prio % 256]
    ELSE [status |-> UA_STATUSCODE_BADINTERNALERROR, target |-> << >>,
          vid |-> 0, prio |-> 0]

\* lwIP netif_name_to_index: the index of the named interface, or NETIF_NO_INDEX
netif_name_to_index(name, netifs) ==
    IF \E n \in netifs : n.name = name
    THEN (CHOOSE n \in netifs : n.name = name).index
    ELSE NETIF_NO_INDEX

\* lwIP netif_get_by_index: the interfaces with that index (none: NULL)
netif_get_by_index(idx, netifs) ==
    IF idx = NETIF_NO_INDEX THEN {} ELSE { n \in netifs : n.index = idx }

(* ------------------------------------------------------------------ *)
(* Heap: live blocks and their contents; a pointer is a block id, 0 NULL *)
(* ------------------------------------------------------------------ *)
NULL_PTR == 0
Blocks == 1..MaxBlocks

\* UA_calloc: a fresh zeroed block, or NULL when out of memory
UA_calloc(hp, oom) ==
    IF oom \/ DOMAIN hp = Blocks THEN NULL_PTR
    ELSE CHOOSE b \in Blocks \ DOMAIN hp : \A o \in Blocks \ DOMAIN hp : b <= o

Store(hp, b, obj) == [x \in DOMAIN hp \cup {b} |-> IF x = b THEN obj ELSE hp[x]]

\* UA_free
UA_free(hp, b) == [x \in DOMAIN hp \ {b} |-> hp[x]]

RECURSIVE FreeAll(_, _)
FreeAll(hp, bs) == IF bs = << >> THEN hp ELSE FreeAll(UA_free(hp, Head(bs)), Tail(bs))

(* ------------------------------------------------------------------ *)
(* UA_PubSubChannelEthernet_open                                        *)
(* ------------------------------------------------------------------ *)
\* the interface name open resolves
open_InterfaceName(address) == "xe"

\* the lifecycle state open gives a new channel
\* open leaving the state that UA_calloc zeroed
open_InitialState_Rdy == UA_PUBSUB_CHANNEL_RDY

open_InitialState == UA_PUBSUB_CHANNEL_PUB

\* open without the UA_free on the path where the channel object cannot be
\* allocated
open_Unwind_Leak(stage, channelDataEthernet) ==
    IF stage = "channel" THEN << >> ELSE << channelDataEthernet >>

\* the blocks an error path of open frees before it returns NULL; stage is
\* the failed step: "type", "url", "mac" or "channel"
open_Unwind(stage, channelDataEthernet) == << channelDataEthernet >>

\* the zeroed UA_PubSubChannelDataEthernet that UA_calloc returns
ZeroChannelData ==
    [ifindex |-> 0, vid |-> 0, prio |-> 0, ifAddress |-> ZeroMac, targetAddress |-> ZeroMac]

\* the zeroed UA_PubSubChannel that UA_calloc returns
ZeroChannel ==
    [state |-> UA_PUBSUB_CHANNEL_RDY, handle |-> NULL_PTR, connectionConfig |-> 0,
     regist |-> "NULL", unregist |-> "NULL", send |-> "NULL", receive |-> "NULL",
     close |-> "NULL"]

open_Fail(hp, allocs, frees) ==
    [ret |-> NULL_PTR, heap |-> FreeAll(hp, frees), allocs |-> allocs, frees |-> frees]

\* UA_parseHardwareAddress into the zeroed targetAddress of the channel data,
\* tabulated once for the target texts of the configurations
ParsedTarget ==
    [t \in { ConnectionConfigs[i].address.url.target : i \in ConfigIds } |->
        UA_parseHardwareAddress(t, ZeroMac)]

\* the result of open: the pointer returned, the heap afterwards, and the
\* blocks the call allocated and freed (in order)
UA_PubSubChannelEthernet_open(connectionConfig, hp, netifs, oomData, oomChannel) ==
    LET channelDataEthernet == UA_calloc(hp, oomData)
        hp1 == Store(hp, channelDataEthernet, ZeroChannelData)
        address == connectionConfig.address
        u == UA_parseEndpointUrlEthernet(address.url)
        mac == ParsedTarget[u.target]
        newChannel == UA_calloc(hp1, oomChannel)
        index == netif_name_to_index(open_InterfaceName(address), netifs)
        data == [ZeroChannelData EXCEPT !.vid = u.vid, !.prio = u.prio,
                                        !.targetAddress = mac.mac, !.ifindex = index]
        chan == [ZeroChannel EXCEPT !.handle = channelDataEthernet,
                                    !.state = open_InitialState]
    IN  IF channelDataEthernet = NULL_PTR
        THEN open_Fail(hp, << >>, << >>)
        ELSE IF ~UA_Variant_hasScalarType(address)
        THEN open_Fail(hp1, << channelDataEthernet >>, open_Unwind("type", channelDataEthernet))
        ELSE IF u.status # UA_STATUSCODE_GOOD
        THEN open_Fail(hp1, << channelDataEthernet >>, open_Unwind("url", channelDataEthernet))
        ELSE IF mac.status # UA_STATUSCODE_GOOD
        THEN open_Fail(hp1, << channelDataEthernet >>, open_Unwind("mac", channelDataEthernet))
        ELSE IF newChannel = NULL_PTR
        THEN open_Fail(hp1, << channelDataEthernet >>, open_Unwind("channel", channelDataEthernet))
        ELSE [ret |-> newChannel,
              heap |-> Store(Store(hp1, channelDataEthernet, data), newChannel, chan),
              allocs |-> << channelDataEthernet, newChannel >>,
              frees |-> << >>]

\* addChannel handing on the channel of open as it is
TransportLayerEthernet_addChannel_Unbound(cfgId, hp, netifs, oomData, oomChannel) ==
    UA_PubSubChannelEthernet_open(ConnectionConfigs[cfgId], hp, netifs, oomData, oomChannel)

\* TransportLayerEthernet_addChannel: open, then bind the operations
TransportLayerEthernet_addChannel(cfgId, hp, netifs, oomData, oomChannel) ==
    LET r == UA_PubSubChannelEthernet_open(ConnectionConfigs[cfgId], hp, netifs,
                                           oomData, oomChannel)
    IN  IF r.ret # NULL_PTR
        THEN [r EXCEPT !.heap = [@ EXCEPT ![r.ret] =
                 [@ EXCEPT !.regist = "UA_PubSubChannelEthernet_regist",
                           !.unregist = "UA_PubSubChannelEthernet_unregist",
                           !.send = "UA_PubSubChannelEthernet_send",
                           !.receive = "UA_PubSubChannelEthernet_receive",
                           !.close = "UA_PubSubChannelEthernet_close",
                           !.connectionConfig = cfgId]]]
        ELSE r

(* ------------------------------------------------------------------ *)
(* State checks of the operations                                       *)
(* ------------------------------------------------------------------ *)
\* regist rejecting only a channel in the error state
regist_StateOk_NotError(state) == state # UA_PUBSUB_CHANNEL_ERROR

regist_StateOk(state) ==
    state = UA_PUBSUB_CHANNEL_PUB \/ state = UA_PUBSUB_CHANNEL_RDY

unregist_StateOk(state) ==
    state = UA_PUBSUB_CHANNEL_PUB_SUB \/ state = UA_PUBSUB_CHANNEL_SUB

\* send with the state check of regist
send_StateOk_AsRegist(state) ==
    state = UA_PUBSUB_CHANNEL_PUB \/ state = UA_PUBSUB_CHANNEL_RDY

\* send with the state check of unregist
send_StateOk_AsUnregist(state) ==
    state = UA_PUBSUB_CHANNEL_PUB_SUB \/ state = UA_PUBSUB_CHANNEL_SUB

send_StateOk(state) ==
    state = UA_PUBSUB_CHANNEL_PUB \/ state = UA_PUBSUB_CHANNEL_PUB_SUB

\* receive with the state check of unregist
receive_StateOk_AsUnregist(state) ==
    state = UA_PUBSUB_CHANNEL_PUB_SUB \/ state = UA_PUBSUB_CHANNEL_SUB

receive_StateOk(state) ==
    state = UA_PUBSUB_CHANNEL_PUB \/ state = UA_PUBSUB_CHANNEL_PUB_SUB

(* ------------------------------------------------------------------ *)
(* pbufs                                                                *)
(* ------------------------------------------------------------------ *)
\* a byte of a pbuf that nothing has written yet
Uninit == -1

NullPbuf == [null |-> TRUE, tot_len |-> 0, payload |-> << >>, type_internal |-> 0]

\* pbuf_alloc(PBUF_LINK, length, PBUF_RAM); the length parameter is a u16_t
pbuf_alloc(length, ok) ==
    IF ok
    THEN [null |-> FALSE, tot_len |-> U16(length),
          payload |-> [i \in 1..U16(length) |-> Uninit], type_internal |-> 0]
    ELSE NullPbuf

\* pbuf_take(p, data, len): copies len bytes into p, refuses a NULL p and a
\* len larger than the pbuf
pbuf_take(p, buf, len) ==
    IF p.null \/ len > p.tot_len THEN p
    ELSE [p EXCEPT !.payload =
             [i \in 1..p.tot_len |-> IF i <= len THEN DataByte(buf, i - 1) ELSE p.payload[i]]]

\* pbuf_add_header(p, n) can succeed: the lengths stay in a u16_t
pbuf_header_fits(p, n) == p.tot_len + n <= 65535

\* p after a successful pbuf_add_header(p, n): n fresh bytes in front
pbuf_add_header(p, n) ==
    [p EXCEPT !.tot_len = p.tot_len + n,
              !.payload = [i \in 1..n |-> Uninit] \o p.payload]

(* ------------------------------------------------------------------ *)
(* UA_PubSubChannelEthernet_send                                        *)
(* ------------------------------------------------------------------ *)
\* the length handed to pbuf_alloc
send_AllocLength(buf) == buf.length

\* the length handed to pbuf_take: (u16_t)lenBuf
send_TakeLength(buf) == U16(buf.length)

\* the EtherType handed to the transmission
send_EthType(vid) == IF vid = 0 THEN ETHERTYPE_UADP ELSE ETHERTYPE_VLAN

\* vlanTag = (UA_UInt16)(vid + (prio << 13))
send_vlanTag(vid, prio) == U16(vid + ShiftLeft(prio, PRIO_SHIFT))

\* vlanhdr->tpid = htons(ETHERTYPE_UADP)
send_Tpid == ETHERTYPE_UADP

\* the frame after the VLAN header has been added and filled in
send_WriteVlanHdr(p, vid, prio) ==
    LET q == pbuf_add_header(p, SIZEOF_VLAN_HDR)
    IN  [q EXCEPT !.payload = htons(send_Tpid) \o htons(send_vlanTag(vid, prio))
                              \o SubSeq(q.payload, SIZEOF_VLAN_HDR + 1, q.tot_len)]

\* pbufs freed on the exit paths of send: "hdr" (pbuf_add_header failed),
\* "tx" (UA_sendraw failed), "ok"
send_Frees(path) == IF path = "hdr" THEN 0 ELSE 1

\* send returning success whatever UA_sendraw reports
send_Result_Good(rcOk) == UA_STATUSCODE_GOOD

\* status returned after UA_sendraw
send_Result(rcOk) == IF rcOk THEN UA_STATUSCODE_GOOD ELSE UA_STATUSCODE_BADINTERNALERROR

NoSend ==
    [ret |-> UA_STATUSCODE_BADINTERNALERROR, crashed |-> FALSE, pbufAlloc |-> 0,
     pbufFree |-> 0, nullTake |-> FALSE, nullNetif |-> FALSE, tag |-> 0, tx |-> << >>,
     frameLen |-> 0, copied |-> 0]

\* one UA_sendraw call: interface, frame, source, destination, EtherType
Transmission(netifIndex, p, src, dst, eth_type, rcOk) ==
    [netif |-> netifIndex, frame |-> p.payload, type_internal |-> PBUF_TYPE_FLAG,
     src |-> src, dst |-> dst, eth_type |-> eth_type, rcOk |-> rcOk]

\* after the frame is built: look up the interface and transmit
send_Transmit(data, p, netifs, tag) ==
    LET found == netif_get_by_index(data.ifindex, netifs)
        eth_type == send_EthType(data.vid)
    IN  IF found = {}
        THEN \* netif is NULL: netif->hwaddr is undefined behaviour
             { [NoSend EXCEPT !.crashed = TRUE, !.ret = "CRASH", !.pbufAlloc = 1,
                              !.nullNetif = TRUE, !.tag = tag] }
             \cup
             { [NoSend EXCEPT !.ret = send_Result(rcOk), !.pbufAlloc = 1,
                              !.pbufFree = send_Frees(IF rcOk THEN "ok" ELSE "tx"),
                              !.nullNetif = TRUE, !.tag = tag,
                              !.tx = << Transmission(NETIF_NO_INDEX, p, ZeroMac,
                                                     data.targetAddress, eth_type, rcOk) >>]
               : rcOk \in BOOLEAN }
        ELSE { [NoSend EXCEPT !.ret = send_Result(rcOk), !.pbufAlloc = 1,
                              !.pbufFree = send_Frees(IF rcOk THEN "ok" ELSE "tx"),
                              !.tag = tag,
                              !.tx = << Transmission(n.index, p, n.hwaddr,
                                                     data.targetAddress, eth_type, rcOk) >>]
               : n \in found, rcOk \in BOOLEAN }

\* every way a call of send can end, for the outcomes the pbuf pool and the
\* driver can produce
UA_PubSubChannelEthernet_send(state, data, buf, netifs, pbufsLive) ==
    IF ~send_StateOk(state) THEN { NoSend }
    ELSE
      \* pbuf_alloc failed: pbuf_take is handed NULL (lwIP asserts, then
      \* returns ERR_ARG), then send returns
      { [NoSend EXCEPT !.nullTake = TRUE],
        [NoSend EXCEPT !.nullTake = TRUE, !.crashed = TRUE, !.ret = "CRASH"] }
      \cup
      (IF pbufsLive >= MaxPbufs THEN {}
       ELSE LET p0 == pbuf_alloc(send_AllocLength(buf), TRUE)
                p == pbuf_take(p0, buf, send_TakeLength(buf))
                outcomes ==
                    IF data.vid = 0
                    THEN send_Transmit(data, p, netifs, 0)
                    ELSE { [NoSend EXCEPT !.pbufAlloc = 1, !.pbufFree = send_Frees("hdr")] }
                         \cup
                         (IF pbuf_header_fits(p, SIZEOF_VLAN_HDR)
                          THEN send_Transmit(data, send_WriteVlanHdr(p, data.vid, data.prio),
                                             netifs, send_vlanTag(data.vid, data.prio))
                          ELSE {})
            IN  \* the length of the pbuf allocated and of the copy into it
                { [o EXCEPT !.frameLen = p0.tot_len,
                            !.copied = IF send_TakeLength(buf) > p0.tot_len THEN 0
                                       ELSE send_TakeLength(buf)] : o \in outcomes })

(* ------------------------------------------------------------------ *)
(* regist, unregist, receive, close                                     *)
(* ------------------------------------------------------------------ *)
\* multicast-group operations regist issues for a multicast target (the
\* PACKET_ADD_MEMBERSHIP call is commented out)
regist_GroupOps(data) == << >>

\* multicast-group operations unregist issues for a multicast target (the
\* PACKET_DROP_MEMBERSHIP call is commented out)
unregist_GroupOps(data) == << >>

UA_PubSubChannelEthernet_regist(state, data) ==
    IF ~regist_StateOk(state)
    THEN [ret |-> UA_STATUSCODE_BADINTERNALERROR, groupOps |-> << >>]
    ELSE IF ~is_multicast_address(data.targetAddress)
    THEN [ret |-> UA_STATUSCODE_GOOD, groupOps |-> << >>]
    ELSE [ret |-> UA_STATUSCODE_GOOD, groupOps |-> regist_GroupOps(data)]

UA_PubSubChannelEthernet_unregist(state, data) ==
    IF ~unregist_StateOk(state)
    THEN [ret |-> UA_STATUSCODE_BADINTERNALERROR, groupOps |-> << >>]
    ELSE IF ~is_multicast_address(data.targetAddress)
    THEN [ret |-> UA_STATUSCODE_GOOD, groupOps |-> << >>]
    ELSE [ret |-> UA_STATUSCODE_GOOD, groupOps |-> unregist_GroupOps(data)]

UA_PubSubChannelEthernet_receive(state, timeout) ==
    IF ~receive_StateOk(state) THEN UA_STATUSCODE_BADINTERNALERROR
    ELSE UA_STATUSCODE_GOOD

\* receive is a stub: nothing is written to the caller's message buffer
receive_Message(message, timeout) == message

\* regist moving the channel to the error state when it fails
regist_StateAfter_Error(state, ret) ==
    IF ret = UA_STATUSCODE_GOOD THEN state ELSE UA_PUBSUB_CHANNEL_ERROR

\* regist making a publisher a publisher and subscriber
regist_StateAfter_PubSub(state, ret) ==
    IF ret = UA_STATUSCODE_GOOD /\ state = UA_PUBSUB_CHANNEL_PUB
    THEN UA_PUBSUB_CHANNEL_PUB_SUB ELSE state

\* channel->state when regist, unregist and send return: none of them
\* assigns it
regist_StateAfter(state, ret) == state
unregist_StateAfter(state, ret) == state
send_StateAfter(state, ret) == state

\* close freeing the channel object only
close_Frees_ChannelOnly(channel, handle) == << channel >>

\* the blocks close frees, in order
close_Frees(channel, handle) == << handle, channel >>

(* ------------------------------------------------------------------ *)
(* State                                                                *)
(* ------------------------------------------------------------------ *)
VARIABLES
    netif_list,  \* the interfaces lwIP knows
    heap,        \* live heap blocks and their contents
    chanRef,     \* the channel pointer each user holds (NULL_PTR: none)
    pbufs,       \* pbufs allocated and not freed
    running,     \* FALSE once undefined behaviour has stopped the program
    last         \* the last call: operation, arguments, result, effects

vars == << netif_list, heap, chanRef, pbufs, running, last >>

Chans == 1..MaxChannels
Timeouts == { 0, 1000 }
\* the message buffer a caller hands to receive
Messages == { ByteString(16, 3) }

NoCall ==
    [op |-> "none", ch |-> 0, ret |-> "none", cfg |-> 0, state |-> "none",
     allocs |-> << >>, frees |-> << >>, buf |-> ByteString(0, 0), out |-> NoSend,
     groupOps |-> << >>, heapBefore |-> {}, afterOpen |-> FALSE, step |-> 0,
     before |-> << >>, ptr |-> NULL_PTR, handle |-> NULL_PTR,
     message |-> ByteString(0, 0), timeout |-> 0]

\* the end-to-end scenario: the calls in order and the payload sent
ScenarioOps == << "open", "regist", "send", "unregist", "close" >>
ScenarioPayload == ByteString(46, 7)

\* the position of the call op(c, buf) in the scenario: k when it is the k-th
\* scenario call on c and the k - 1 before it were the calls just made, each
\* returning success; 0 otherwise
ScenarioStep(op, c, buf) ==
    IF op = "open" THEN 1
    ELSE IF /\ last.ch = c
            /\ last.step \in 1..(Len(ScenarioOps) - 1)
            /\ last.ret \in { "CHANNEL", UA_STATUSCODE_GOOD }
            /\ op = ScenarioOps[last.step + 1]
            /\ (op = "send" => buf = ScenarioPayload)
         THEN last.step + 1
         ELSE 0

Channel(c) == heap[chanRef[c]]
Data(c) == heap[Channel(c).handle]

Init ==
    /\ netif_list \in NetifLists
    /\ heap = << >>
    /\ chanRef = [c \in Chans |-> NULL_PTR]
    /\ pbufs = 0
    /\ running = TRUE
    /\ last = NoCall

\* a user is handed a channel in any lifecycle state (state is a public
\* field of UA_PubSubChannel), the other users hold none
InitAnyState ==
    /\ netif_list \in NetifLists
    /\ \E cfgId \in ConfigIds, st \in UA_PubSubChannelState :
         LET r == TransportLayerEthernet_addChannel(cfgId, << >>, netif_list, FALSE, FALSE)
         IN  /\ r.ret # NULL_PTR
             /\ heap = [r.heap EXCEPT ![r.ret].state = st]
             /\ chanRef = [c \in Chans |-> IF c = 1 THEN r.ret ELSE NULL_PTR]
    /\ pbufs = 0
    /\ running = TRUE
    /\ last = NoCall

(* ------------------------------------------------------------------ *)
(* Operations                                                           *)
(* ------------------------------------------------------------------ *)
\* what is known of a call on the channel of user c before it runs
Call(op, c, buf) ==
    [NoCall EXCEPT !.op = op, !.ch = c, !.buf = buf,
                   !.cfg = Channel(c).connectionConfig,
                   !.state = Channel(c).state,
                   !.heapBefore = DOMAIN heap,
                   !.before = heap,
                   !.ptr = chanRef[c],
                   !.handle = Channel(c).handle,
                   !.step = ScenarioStep(op, c, buf),
                   !.afterOpen = (last.op = "open" /\ last.ch = c /\ last.ret = "CHANNEL")]

AddChannel ==
    \E c \in Chans, cfgId \in ConfigIds, oomData \in BOOLEAN, oomChannel \in BOOLEAN :
      /\ running
      /\ chanRef[c] = NULL_PTR
      /\ LET r == TransportLayerEthernet_addChannel(cfgId, heap, netif_list,
                                                    oomData, oomChannel)
         IN  /\ heap' = r.heap
             /\ chanRef' = [chanRef EXCEPT ![c] = r.ret]
             /\ last' = [NoCall EXCEPT !.op = "open", !.ch = c, !.cfg = cfgId,
                                       !.ret = IF r.ret = NULL_PTR THEN "NULL" ELSE "CHANNEL",
                                       !.allocs = r.allocs, !.frees = r.frees,
                                       !.step = ScenarioStep("open", c, NoCall.buf),
                                       !.heapBefore = DOMAIN heap,
                                       !.before = heap]
      /\ UNCHANGED << netif_list, pbufs, running >>

Regist ==
    \E c \in Chans :
      /\ running
      /\ chanRef[c] # NULL_PTR
      /\ LET r == UA_PubSubChannelEthernet_regist(Channel(c).state, Data(c))
         IN  /\ last' = [Call("regist", c, NoCall.buf) EXCEPT !.ret = r.ret,
                                                              !.groupOps = r.groupOps]
             /\ heap' = [heap EXCEPT ![chanRef[c]].state = regist_StateAfter(@, r.ret)]
      /\ UNCHANGED << netif_list, chanRef, pbufs, running >>

Unregist ==
    \E c \in Chans :
      /\ running
      /\ chanRef[c] # NULL_PTR
      /\ LET r == UA_PubSubChannelEthernet_unregist(Channel(c).state, Data(c))
         IN  /\ last' = [Call("unregist", c, NoCall.buf) EXCEPT !.ret = r.ret,
                                                                !.groupOps = r.groupOps]
             /\ heap' = [heap EXCEPT ![chanRef[c]].state = unregist_StateAfter(@, r.ret)]
      /\ UNCHANGED << netif_list, chanRef, pbufs, running >>

Send ==
    \E c \in Chans, buf \in Payloads :
      /\ running
      /\ chanRef[c] # NULL_PTR
      /\ \E o \in UA_PubSubChannelEthernet_send(Channel(c).state, Data(c), buf,
                                                netif_list, pbufs) :
           /\ last' = [Call("send", c, buf) EXCEPT !.ret = o.ret, !.out = o]
           /\ pbufs' = pbufs + o.pbufAlloc - o.pbufFree
           /\ running' = ~o.crashed
           /\ heap' = [heap EXCEPT ![chanRef[c]].state = send_StateAfter(@, o.ret)]
      /\ UNCHANGED << netif_list, chanRef >>

Receive ==
    \E c \in Chans, message \in Messages, timeout \in Timeouts :
      /\ running
      /\ chanRef[c] # NULL_PTR
      /\ last' = [Call("receive", c, message) EXCEPT
                    !.ret = UA_PubSubChannelEthernet_receive(Channel(c).state, timeout),
                    !.message = receive_Message(message, timeout),
                    !.timeout = timeout]
      /\ UNCHANGED << netif_list, heap, chanRef, pbufs, running >>

Close ==
    \E c \in Chans :
      /\ running
      /\ chanRef[c] # NULL_PTR
      /\ LET frees == close_Frees(chanRef[c], Channel(c).handle)
         IN  /\ heap' = FreeAll(heap, frees)
             /\ last' = [Call("close", c, NoCall.buf) EXCEPT !.ret = UA_STATUSCODE_GOOD,
                                                             !.frees = frees]
      /\ chanRef' = [chanRef EXCEPT ![c] = NULL_PTR]
      /\ UNCHANGED << netif_list, pbufs, running >>

Next == AddChannel \/ Regist \/ Unregist \/ Send \/ Receive \/ Close

Spec == Init /\ [][Next]_vars

SpecAnyState == InitAnyState /\ [][Next]_vars

(* ------------------------------------------------------------------ *)
(* The codec functions on their own: an input is drawn, then the        *)
(* function is applied to it                                            *)
(* ------------------------------------------------------------------ *)
Bytes == 0..255

\* 01-00-5E-00-00-01
MacIpMulticast == << 1, 0, 94, 0, 0, 1 >>

\* hardware addresses: every byte value at every position of a few addresses
RoundTripMacs ==
    { [m EXCEPT ![i] = b] : m \in { ZeroMac, MacBroadcast, MacMulticast },
                            i \in 1..ETH_ALEN, b \in Bytes }
AddressSamples ==
    RoundTripMacs \cup
    { [m EXCEPT ![i] = b] : m \in { MacUnicast, MacIpMulticast },
                            i \in 1..ETH_ALEN, b \in Bytes }

\* destination buffers as the caller hands them to the parser
DestinationBuffers == { ZeroMac, << 17, 34, 51, 68, 85, 102 >> }

RECURSIVE JoinFrom(_, _, _)
\* groups[i..] with seps[j] written between groups[j] and groups[j + 1]
JoinFrom(groups, seps, i) ==
    IF i > Len(groups) THEN << >>
    ELSE groups[i] \o (IF i < Len(groups) THEN seps[i] ELSE << >>)
         \o JoinFrom(groups, seps, i + 1)

\* the text made of the groups, separated by hyphens
Join(groups) == JoinFrom(groups, [i \in 1..Len(groups) |-> << "-" >>], 1)

\* 01-23-45-67-89-ab, 01:23:45:67:89:AB, 1g-23-45-67-89-ab
ExampleGroups ==
    << << "0", "1" >>, << "2", "3" >>, << "4", "5" >>, << "6", "7" >>, << "8", "9" >>,
       << "a", "b" >> >>
ExampleGroupsUpper == [ExampleGroups EXCEPT ![6] = << "A", "B" >>]

\* groups written in place of one group of the example
GroupSamples ==
    { << >>, << "0" >>, << "f" >>, << "F", "f" >>, << "1", "g" >>, << "g" >>, << "x", "1" >>,
      << "0", "0", "1" >>, << "0", "f", "f" >>, << "1", "0", "0" >>, << "f", "f", "f" >>,
      << "0", "0", "0", "0", "0", "0", "0", "0", "0", "7" >>,
      << "1", "0", "0", "0", "0", "0", "0", "0", "0" >>,
      << "1", "0", "0", "0", "0", "0", "0", "a", "b" >>,
      << "f", "f", "f", "f", "f", "f", "f", "f" >>,
      << " ", "0", "1" >>, << "0", "1", " " >>, << "+", "1" >> }

\* what is written in place of one hyphen
SeparatorSamples == { << >>, << ":" >>, << " " >>, << "-", "-" >>, << "." >> }

\* what is written after the sixth group
TrailSamples == { << "-" >>, << "x" >>, << " " >>, << ":" >>, << "-", "c", "d" >>, << "0" >> }

\* texts that are not the canonical text of an address
TextSamples ==
    { Join(SubSeq(ExampleGroups, 1, n)) : n \in 0..ETH_ALEN }
    \cup { Join(ExampleGroups \o SubSeq(ExampleGroups, 1, n)) : n \in 1..2 }
    \cup { JoinFrom(ExampleGroupsUpper, [i \in 1..ETH_ALEN |-> << ":" >>], 1) }
    \cup { Join([ExampleGroups EXCEPT ![k] = g]) : k \in 1..ETH_ALEN, g \in GroupSamples }
    \cup { JoinFrom(ExampleGroups, [i \in 1..ETH_ALEN |-> IF i = k THEN sep ELSE << "-" >>], 1)
            : k \in 1..(ETH_ALEN - 1), sep \in SeparatorSamples }
    \cup { Join(ExampleGroups) \o t : t \in TrailSamples }
    \cup { << "-" >> \o Join(ExampleGroups) }

NoCodecCall ==
    [op |-> "none", target |-> << >>, from |-> << >>, destinationMac |-> ZeroMac,
     address |-> ZeroMac, status |-> "none", mac |-> ZeroMac, result |-> FALSE]

\* the calls of the parser: the canonical text of an address (from: the
\* address it is the text of) or another text, and a destination buffer
ParseInputs ==
    { [NoCodecCall EXCEPT !.op = "parse_input", !.target = FormatHardwareAddress(a, upper),
                          !.from = a, !.destinationMac = d]
      : a \in RoundTripMacs, upper \in BOOLEAN, d \in DestinationBuffers }
    \cup
    { [NoCodecCall EXCEPT !.op = "parse_input", !.target = t, !.destinationMac = d]
      : t \in TextSamples, d \in DestinationBuffers }

\* the calls of the classifier
AddressInputs ==
    { [NoCodecCall EXCEPT !.op = "address_input", !.address = a] : a \in AddressSamples }

InitCodec ==
    /\ netif_list = {}
    /\ heap = << >>
    /\ chanRef = [c \in Chans |-> NULL_PTR]
    /\ pbufs = 0
    /\ running = TRUE
    /\ last \in ParseInputs \cup AddressInputs

ParseHardwareAddress ==
    /\ last.op = "parse_input"
    /\ LET r == UA_parseHardwareAddress(last.target, last.destinationMac)
       IN  last' = [last EXCEPT !.op = "parse", !.status = r.status, !.mac = r.mac]
    /\ UNCHANGED << netif_list, heap, chanRef, pbufs, running >>

IsMulticastAddress ==
    /\ last.op = "address_input"
    /\ last' = [last EXCEPT !.op = "is_multicast",
                            !.result = is_multicast_address(last.address)]
    /\ UNCHANGED << netif_list, heap, chanRef, pbufs, running >>

NextCodec == ParseHardwareAddress \/ IsMulticastAddress

SpecCodec == InitCodec /\ [][NextCodec]_vars

(* ------------------------------------------------------------------ *)
(* iicNs: the generated registration of the nodeset                     *)
(* ------------------------------------------------------------------ *)
\* the highest node index: function_iicNs_91_begin, function_iicNs_91_finish
LastNode == 91
Nodes == 0..LastNode

UA_STATUSCODE_BADOUTOFMEMORY == "BADOUTOFMEMORY"
UA_STATUSCODE_BADNODEIDEXISTS == "BADNODEIDEXISTS"
UA_STATUSCODE_BADTYPEDEFINITIONINVALID == "BADTYPEDEFINITIONINVALID"

\* the statuses function_iicNs_<node>_begin can return: the status of
\* UA_Server_addNode_begin (and of UA_Server_addReference), or out of memory
function_iicNs_begin(node) ==
    { UA_STATUSCODE_GOOD, UA_STATUSCODE_BADOUTOFMEMORY, UA_STATUSCODE_BADNODEIDEXISTS }

\* the statuses function_iicNs_<node>_finish can return: the status of
\* UA_Server_addNode_finish
function_iicNs_finish(node) ==
    { UA_STATUSCODE_GOOD, UA_STATUSCODE_BADOUTOFMEMORY,
      UA_STATUSCODE_BADTYPEDEFINITIONINVALID }

\* the chain with the finish calls in the order of the begin calls
iicNs_Steps_FinishAscending ==
    [k \in 1..(2 * (LastNode + 1)) |->
        IF k <= LastNode + 1 THEN [kind |-> "begin", node |-> k - 1]
        ELSE [kind |-> "finish", node |-> k - (LastNode + 1) - 1]]

\* the calls of the && chain of iicNs, in the order they are written
iicNs_Steps ==
    [k \in 1..(2 * (LastNode + 1)) |->
        IF k <= LastNode + 1 THEN [kind |-> "begin", node |-> k - 1]
        ELSE [kind |-> "finish", node |-> 2 * (LastNode + 1) - k]]

\* the chain going on whatever a call returned
iicNs_Continue_Always(retVal) == TRUE

\* !(retVal = ...): the chain goes on to its next call
iicNs_Continue(retVal) == retVal = UA_STATUSCODE_GOOD

\* iicNs after the two UA_Server_addNamespace calls: no call of the chain made
InitNs ==
    /\ netif_list = {}
    /\ heap = << >>
    /\ chanRef = [c \in Chans |-> NULL_PTR]
    /\ pbufs = 0
    /\ running = TRUE
    /\ last = [op |-> "iicNs", pc |-> 0, retVal |-> UA_STATUSCODE_GOOD, calls |-> << >>,
               returned |-> FALSE, ret |-> "none"]

\* the next call of the chain is made and returns status
NsCall(status) ==
    LET step == iicNs_Steps[last.pc + 1]
    IN  last' = [last EXCEPT !.pc = @ + 1, !.retVal = status,
                             !.calls = Append(@, [kind |-> step.kind, node |-> step.node,
                                                  status |-> status])]

FunctionBegin ==
    /\ ~last.returned
    /\ last.pc < Len(iicNs_Steps)
    /\ iicNs_Continue(last.retVal)
    /\ iicNs_Steps[last.pc + 1].kind = "begin"
    /\ \E status \in function_iicNs_begin(iicNs_Steps[last.pc + 1].node) : NsCall(status)
    /\ UNCHANGED << netif_list, heap, chanRef, pbufs, running >>

FunctionFinish ==
    /\ ~last.returned
    /\ last.pc < Len(iicNs_Steps)
    /\ iicNs_Continue(last.retVal)
    /\ iicNs_Steps[last.pc + 1].kind = "finish"
    /\ \E status \in function_iicNs_finish(iicNs_Steps[last.pc + 1].node) : NsCall(status)
    /\ UNCHANGED << netif_list, heap, chanRef, pbufs, running >>

\* return retVal
IicNsReturn ==
    /\ ~last.returned
    /\ last.pc = Len(iicNs_Steps) \/ ~iicNs_Continue(last.retVal)
    /\ last' = [last EXCEPT !.returned = TRUE, !.ret = last.retVal]
    /\ UNCHANGED << netif_list, heap, chanRef, pbufs, running >>

NextNs == FunctionBegin \/ FunctionFinish \/ IicNsReturn

SpecNs == InitNs /\ [][NextNs]_vars

TypeOK ==
    /\ chanRef \in [Chans -> {NULL_PTR} \cup Blocks]
    /\ pbufs \in 0..MaxPbufs
    /\ running \in BOOLEAN

(* ------------------------------------------------------------------ *)
(* Properties                                                           *)
(* ------------------------------------------------------------------ *)
\* the last call transmitted a frame; the driver accepted it
Transmitted == last.out.tx # << >>
TxOk == Transmitted /\ last.out.tx[1].rcOk

\* the hardware addresses the configurations are written from, and their texts
SampleMacs == { MacMulticast, MacUnicast, MacBroadcast }
ValidTargets == { FormatHardwareAddress(m, u) : m \in SampleMacs, u \in BOOLEAN }

CfgUrl(cfgId) == ConnectionConfigs[cfgId].address.url

\* the configuration opens a channel when memory suffices
CfgOpens(cfgId) ==
    /\ ConnectionConfigs[cfgId].address.type = "NetworkAddressUrlDataType"
    /\ CfgUrl(cfgId).wellFormed
    /\ CfgUrl(cfgId).target \in ValidTargets

\* the configuration of the end-to-end scenario: multicast target, VLAN id 0
CfgScenario(cfgId) ==
    /\ CfgOpens(cfgId)
    /\ CfgUrl(cfgId).target \in { FormatHardwareAddress(MacMulticast, u) : u \in BOOLEAN }
    /\ CfgUrl(cfgId).vid = 0

\* the number of times block b occurs in the sequence bs
Occurrences(b, bs) == Cardinality({ i \in 1..Len(bs) : bs[i] = b })

\* C1: in the scenario open (multicast target, VLAN id 0), Register,
\* Send(46 bytes), Unregister, Close, every call returns success when frame
\* allocation and transmission succeed, and after Close none of the blocks of
\* the channel is still allocated.
C1_EndToEnd ==
    (last.step \in 2..5 /\ CfgScenario(last.cfg)) =>
        /\ (last.op = "send" => TxOk) => last.ret = UA_STATUSCODE_GOOD
        /\ last.op = "close" =>
              /\ Len(last.frees) = 2
              /\ \A i \in 1..2 : last.frees[i] \notin DOMAIN heap
              /\ DOMAIN heap = last.heapBefore \ { last.frees[1], last.frees[2] }

\* C2: every frame buffer send allocates is released before send returns,
\* on every exit path; no pbuf allocated by send is ever left live.
C2_SendReleasesFrame ==
    running =>
        /\ pbufs = 0
        /\ last.op = "send" => last.out.pbufFree = last.out.pbufAlloc

\* C3: in a state other than PUBLISHER and PUBLISHER_SUBSCRIBER send returns
\* an error, allocates no frame buffer and transmits nothing; a transmission
\* is attempted only in one of these two states.
C3_SendStateGated ==
    last.op = "send" =>
        /\ last.state \notin { UA_PUBSUB_CHANNEL_PUB, UA_PUBSUB_CHANNEL_PUB_SUB } =>
              /\ last.ret = UA_STATUSCODE_BADINTERNALERROR
              /\ last.out.pbufAlloc = 0
              /\ ~last.out.nullTake
              /\ ~Transmitted
        /\ Transmitted =>
              last.state \in { UA_PUBSUB_CHANNEL_PUB, UA_PUBSUB_CHANNEL_PUB_SUB }

C3_Witness ==
    /\ last.op = "send"
    /\ last.state = UA_PUBSUB_CHANNEL_SUB
    /\ last.ret = UA_STATUSCODE_BADINTERNALERROR

\* C4: a frame send transmits is, for VLAN id 0, exactly the payload bytes
\* with EtherType 0xB62C; for another VLAN id it is 4 bytes longer than the
\* payload, starts with the tag protocol identifier 0xB62C in network byte
\* order, ends with the unchanged payload, and has EtherType 0x8100.
C4_FrameLayout ==
    (last.op = "send" /\ Transmitted) =>
        LET t == last.out.tx[1]
            L == last.buf.length
        IN  IF Data(last.ch).vid = 0
            THEN /\ Len(t.frame) = L
                 /\ t.frame = [i \in 1..L |-> DataByte(last.buf, i - 1)]
                 /\ t.eth_type = ETHERTYPE_UADP
            ELSE /\ Len(t.frame) = L + 4
                 /\ SubSeq(t.frame, 1, 2) = << 182, 44 >>
                 /\ SubSeq(t.frame, 5, L + 4) = [i \in 1..L |-> DataByte(last.buf, i - 1)]
                 /\ t.eth_type = ETHERTYPE_VLAN

\* C5: for every non-zero VLAN id vid and priority p stored in the channel,
\* the tag control value send writes is vid | (p << 13).
C5_TagControl ==
    (last.op = "send" /\ Transmitted /\ Data(last.ch).vid # 0) =>
        last.out.tag = BitOr(Data(last.ch).vid, ShiftLeft(Data(last.ch).prio, 13))

\* C6: when open fails (wrong address type, unparseable URL, invalid target
\* address, out of memory for either block) it returns NULL and has freed
\* every block it allocated exactly once; a channel it returns is
\* initialised, with a non-NULL handle and both blocks live.
C6_OpenAllOrNothing ==
    last.op = "open" =>
        /\ (~CfgOpens(last.cfg) \/ Len(last.allocs) < 2) => last.ret = "NULL"
        /\ last.ret = "NULL" =>
              /\ chanRef[last.ch] = NULL_PTR
              /\ DOMAIN heap = last.heapBefore
              /\ \A i \in 1..Len(last.allocs) : Occurrences(last.allocs[i], last.frees) = 1
              /\ \A i \in 1..Len(last.frees) : Occurrences(last.frees[i], last.allocs) = 1
        /\ last.ret = "CHANNEL" =>
              /\ chanRef[last.ch] \in DOMAIN heap
              /\ Channel(last.ch).handle # NULL_PTR
              /\ Channel(last.ch).handle # chanRef[last.ch]
              /\ Channel(last.ch).handle \in DOMAIN heap
              /\ last.frees = << >>
              /\ DOMAIN heap = last.heapBefore \cup { chanRef[last.ch], Channel(last.ch).handle }
              /\ Data(last.ch).targetAddress \in SampleMacs

C6_Witness ==
    /\ last.op = "open"
    /\ last.ret = "NULL"
    /\ CfgOpens(last.cfg)
    /\ Len(last.allocs) = 1
    /\ last.frees = last.allocs

\* C7: open returns no channel when the interface named by the configuration
\* cannot be resolved; a returned channel never holds an unresolved index.
C7_OpenFailsUnresolved ==
    (last.op = "open" /\ last.ret = "CHANNEL") =>
        /\ \E n \in netif_list : n.name = ConnectionConfigs[last.cfg].address.networkInterface
        /\ Data(last.ch).ifindex # NETIF_NO_INDEX

\* C8: a channel open returns is in state PUBLISHER and holds the VLAN id and
\* priority of the URL and the bytes of the hardware address the URL's target
\* text is written from.
C8_OpenResult ==
    (last.op = "open" /\ last.ret = "CHANNEL") =>
        /\ Channel(last.ch).state = UA_PUBSUB_CHANNEL_PUB
        /\ Data(last.ch).vid = CfgUrl(last.cfg).vid
        /\ Data(last.ch).prio = CfgUrl(last.cfg).prio
        /\ \E m \in SampleMacs, u \in BOOLEAN :
              /\ CfgUrl(last.cfg).target = FormatHardwareAddress(m, u)
              /\ Data(last.ch).targetAddress = m

C8_Witness ==
    /\ last.op = "open"
    /\ last.ret = "CHANNEL"
    /\ Data(last.ch).vid = 100
    /\ Data(last.ch).prio = 5
    /\ Data(last.ch).targetAddress = MacUnicast

\* C9: send as the first call on a channel open returned passes the state
\* check, and returns success when the frame is allocated and transmitted.
C9_FreshSend ==
    (last.op = "send" /\ last.afterOpen) =>
        /\ last.out.nullTake \/ last.out.pbufAlloc = 1
        /\ TxOk => last.ret = UA_STATUSCODE_GOOD

C9_Witness ==
    /\ last.op = "send"
    /\ last.afterOpen
    /\ TxOk
    /\ last.ret = UA_STATUSCODE_GOOD

\* C10: regist in a state other than PUBLISHER and READY returns an error,
\* issues no multicast-group operation and changes nothing; in PUBLISHER and
\* in READY it is accepted.
C10_RegistStateGated ==
    [][ last'.op = "regist" =>
          LET st == heap[chanRef[last'.ch]].state
          IN  /\ st \notin { UA_PUBSUB_CHANNEL_PUB, UA_PUBSUB_CHANNEL_RDY } =>
                    /\ last'.ret = UA_STATUSCODE_BADINTERNALERROR
                    /\ last'.groupOps = << >>
                    /\ heap' = heap /\ chanRef' = chanRef /\ pbufs' = pbufs
              /\ st \in { UA_PUBSUB_CHANNEL_PUB, UA_PUBSUB_CHANNEL_RDY } =>
                    last'.ret = UA_STATUSCODE_GOOD ]_vars

C10_Witness ==
    /\ last.op = "regist"
    /\ last.state = UA_PUBSUB_CHANNEL_SUB
    /\ last.ret = UA_STATUSCODE_BADINTERNALERROR

\* an address is multicast-eligible: the least-significant bit of its first
\* octet is 1 and it is not the all-ones broadcast address
MulticastEligible(a) == a[1] % 2 = 1 /\ a # [i \in 1..6 |-> 255]

\* a multicast-group operation on an interface
GroupOp(op, ifindex, address) == [op |-> op, ifindex |-> ifindex, address |-> address]

\* C11: regist in a valid state returns success without a join when the
\* target address is not multicast-eligible; for a multicast-eligible target
\* a regist that returns success has joined the multicast group of the target
\* address on the interface of the channel.
C11_RegistJoins ==
    (last.op = "regist" /\ last.state \in { UA_PUBSUB_CHANNEL_PUB, UA_PUBSUB_CHANNEL_RDY }) =>
        LET data == Data(last.ch)
        IN  IF MulticastEligible(data.targetAddress)
            THEN last.ret = UA_STATUSCODE_GOOD =>
                     last.groupOps = << GroupOp("join", data.ifindex, data.targetAddress) >>
            ELSE /\ last.ret = UA_STATUSCODE_GOOD
                 /\ last.groupOps = << >>

C13_SendAtMostOnce ==
    last.op = "send" =>
        /\ Len(last.out.tx) <= 1
        /\ Transmitted =>
              IF last.out.tx[1].rcOk
              THEN last.ret = UA_STATUSCODE_GOOD
              ELSE last.ret = UA_STATUSCODE_BADINTERNALERROR

C13_Witness ==
    /\ last.op = "send"
    /\ Len(last.out.tx) = 1
    /\ ~last.out.tx[1].rcOk
    /\ last.ret = UA_STATUSCODE_BADINTERNALERROR

\* C14: when send, regist or unregist returns an error, the lifecycle state
\* of the channel, its stored data (interface index, VLAN id, priority, target
\* address) and its configuration are what they were before the call.
C14_NoTransitionOnError ==
    (/\ last.op \in { "send", "regist", "unregist" }
     /\ last.ret = UA_STATUSCODE_BADINTERNALERROR) =>
        /\ chanRef[last.ch] = last.ptr
        /\ Channel(last.ch) = last.before[last.ptr]
        /\ Channel(last.ch).handle = last.handle
        /\ Data(last.ch) = last.before[last.handle]
        /\ heap = last.before

C14_Witness ==
    /\ last.op = "regist"
    /\ last.ret = UA_STATUSCODE_BADINTERNALERROR
    /\ last.state = UA_PUBSUB_CHANNEL_CLOSED
    /\ Channel(last.ch).state = UA_PUBSUB_CHANNEL_CLOSED

\* C15: close returns success in every lifecycle state and frees the handle
\* and the channel object, each exactly once, and nothing else.
C15_CloseReleases ==
    last.op = "close" =>
        /\ last.ret = UA_STATUSCODE_GOOD
        /\ last.ptr # last.handle
        /\ Len(last.frees) = 2
        /\ Occurrences(last.handle, last.frees) = 1
        /\ Occurrences(last.ptr, last.frees) = 1
        /\ DOMAIN heap = DOMAIN last.before \ { last.ptr, last.handle }
        /\ \A b \in DOMAIN heap : heap[b] = last.before[b]
        /\ chanRef[last.ch] = NULL_PTR

C15_Witness ==
    /\ last.op = "close"
    /\ last.state = UA_PUBSUB_CHANNEL_ERROR
    /\ last.ret = UA_STATUSCODE_GOOD
    /\ last.frees = << last.handle, last.ptr >>

\* C16: receive returns an error in every state other than PUBLISHER and
\* PUBLISHER_SUBSCRIBER; in these two states it returns success for every
\* timeout; in every case the caller's message buffer and the channel are
\* left as they were.
C16_ReceiveStub ==
    last.op = "receive" =>
        /\ IF last.state \in { UA_PUBSUB_CHANNEL_PUB, UA_PUBSUB_CHANNEL_PUB_SUB }
           THEN last.ret = UA_STATUSCODE_GOOD
           ELSE last.ret = UA_STATUSCODE_BADINTERNALERROR
        /\ last.message = last.buf
        /\ chanRef[last.ch] = last.ptr
        /\ heap = last.before

C16_Witness ==
    /\ last.op = "receive"
    /\ last.state = UA_PUBSUB_CHANNEL_PUB_SUB
    /\ last.timeout = 1000
    /\ last.ret = UA_STATUSCODE_GOOD
    /\ last.message \in Messages

RECURSIVE SplitFrom(_, _, _)
\* the groups of text[i..]: what stands between the hyphens; cur is the group
\* being read
SplitFrom(text, i, cur) ==
    IF i > Len(text) THEN << cur >>
    ELSE IF text[i] = "-" THEN << cur >> \o SplitFrom(text, i + 1, << >>)
    ELSE SplitFrom(text, i + 1, Append(cur, text[i]))

\* the group is a hexadecimal number
IsHexNumber(g) == g # << >> /\ \A i \in 1..Len(g) : g[i] \in DOMAIN DigitTable

\* the number of digits of the hexadecimal number g from its first non-zero
\* digit on: its value exceeds 255 exactly when there are more than two
SignificantDigits(g) ==
    Cardinality({ i \in 1..Len(g) : \E j \in 1..i : g[j] # "0" })

\* the text is malformed: a group is empty or not a hexadecimal number (so a
\* separator is missing or is not a hyphen, or other text follows a group),
\* a group's value exceeds 255, or the groups are not exactly 6
Malformed(text) ==
    LET groups == SplitFrom(text, 1, << >>)
    IN  \/ Len(groups) # 6
        \/ \E k \in 1..Len(groups) :
              ~IsHexNumber(groups[k]) \/ SignificantDigits(groups[k]) > 2

\* C17: for every 6-byte array A, the parser applied to A written as six
\* two-digit hexadecimal pairs separated by hyphens, in upper or lower case,
\* succeeds and leaves exactly the bytes of A in the destination.
C17_RoundTrip ==
    (last.op = "parse" /\ last.from # << >>) =>
        /\ Len(last.target) = 17
        /\ last.status = UA_STATUSCODE_GOOD
        /\ last.mac = last.from

C17_Witness ==
    /\ last.op = "parse"
    /\ last.from = << 1, 27, 25, 0, 0, 171 >>
    /\ last.target = << "0", "1", "-", "1", "b", "-", "1", "9", "-", "0", "0", "-", "0", "0",
                        "-", "a", "b" >>
    /\ last.destinationMac # ZeroMac
    /\ last.mac = last.from

\* C18: the parser fails on every malformed text: an empty group, a group
\* whose value exceeds 255, a missing or wrong separator, text or a separator
\* after the sixth group, fewer or more than 6 groups.
C18_RejectsMalformed ==
    (last.op = "parse" /\ Malformed(last.target)) =>
        last.status = UA_STATUSCODE_BADINTERNALERROR

\* C19: the classifier returns true for an address exactly when the
\* least-significant bit of its first byte is 1 and the address is not
\* FF-FF-FF-FF-FF-FF.
C19_MulticastClassification ==
    last.op = "is_multicast" => last.result = MulticastEligible(last.address)

C19_Witness ==
    /\ last.op = "is_multicast"
    /\ last.address = MacBroadcast
    /\ last.result = FALSE

\* C20: every transmission send makes has the stored target address of the
\* channel as destination and, as source, the hardware address of the
\* interface that has the stored interface index.
C20_Addressing ==
    (last.op = "send" /\ Transmitted) =>
        LET t == last.out.tx[1]
        IN  /\ t.dst = Data(last.ch).targetAddress
            /\ \E n \in netif_list :
                  /\ n.index = Data(last.ch).ifindex
                  /\ t.netif = n.index
                  /\ t.src = n.hwaddr

\* the statuses send can return on the channel of user a, for each payload,
\* when n pbufs are in use
SendStatuses(a, n) ==
    UNION { { << buf, o.ret >> :
              o \in UA_PubSubChannelEthernet_send(Channel(a).state, Data(a), buf,
                                                  netif_list, n) }
            : buf \in Payloads }

\* C21: a call on one channel leaves every other channel as it was: the
\* channel object and the data of the other channel are unchanged, and the
\* statuses the other channel's operations can return are the same as if the
\* call had not been made.
C21_ChannelIndependence ==
    (running /\ last.op # "none") =>
        \A a \in Chans \ { last.ch } :
            chanRef[a] # NULL_PTR =>
                /\ chanRef[a] \in DOMAIN last.before
                /\ Channel(a) = last.before[chanRef[a]]
                /\ Data(a) = last.before[Channel(a).handle]
                /\ SendStatuses(a, pbufs)
                      = SendStatuses(a, pbufs - last.out.pbufAlloc + last.out.pbufFree)

\* C22: the channel factory returns NULL exactly when open returns NULL; a
\* channel it returns has regist, unregist, send, receive and close bound to
\* the Ethernet functions and connectionConfig set to the configuration given.
C22_ChannelFactory ==
    last.op = "open" =>
        IF Len(last.allocs) = 2 /\ last.frees = << >>
        THEN /\ last.ret = "CHANNEL"
             /\ chanRef[last.ch] = last.allocs[2]
             /\ Channel(last.ch).regist = "UA_PubSubChannelEthernet_regist"
             /\ Channel(last.ch).unregist = "UA_PubSubChannelEthernet_unregist"
             /\ Channel(last.ch).send = "UA_PubSubChannelEthernet_send"
             /\ Channel(last.ch).receive = "UA_PubSubChannelEthernet_receive"
             /\ Channel(last.ch).close = "UA_PubSubChannelEthernet_close"
             /\ Channel(last.ch).connectionConfig = last.cfg
        ELSE /\ last.ret = "NULL"
             /\ chanRef[last.ch] = NULL_PTR

C22_Witness ==
    /\ last.op = "open"
    /\ last.ret = "CHANNEL"
    /\ last.cfg = 2
    /\ Channel(last.ch).connectionConfig = 2
    /\ Channel(last.ch).send = "UA_PubSubChannelEthernet_send"

\* C23: a channel open returned is in state PUBLISHER after every sequence
\* of regist, unregist, send and receive calls, so every unregist call on it
\* returns an error.
C23_AlwaysPublisher ==
    /\ \A c \in Chans :
          chanRef[c] # NULL_PTR => Channel(c).state = UA_PUBSUB_CHANNEL_PUB
    /\ last.op \in { "regist", "unregist", "send", "receive", "close" } =>
          last.state = UA_PUBSUB_CHANNEL_PUB
    /\ last.op = "unregist" => last.ret = UA_STATUSCODE_BADINTERNALERROR

C23_Witness ==
    /\ last.op = "unregist"
    /\ last.step = 4
    /\ Channel(last.ch).state = UA_PUBSUB_CHANNEL_PUB
    /\ last.ret = UA_STATUSCODE_BADINTERNALERROR

\* C24: no send hands a NULL frame buffer to the copy of the payload, and no
\* send reads the hardware address through a NULL interface pointer.
C24_SendNullSafe ==
    last.op = "send" =>
        /\ ~last.out.nullTake
        /\ ~last.out.nullNetif

\* C25: the interface index open stores is the index of the interface the
\* configuration names in networkInterface.
C25_InterfaceFromConfig ==
    (last.op = "open" /\ last.ret = "CHANNEL") =>
        Data(last.ch).ifindex
            = netif_name_to_index(ConnectionConfigs[last.cfg].address.networkInterface,
                                  netif_list)

\* C28: for every payload length L, the frame buffer send allocates has
\* length L and send copies L payload bytes into it.
C28_LengthPreserved ==
    (last.op = "send" /\ last.out.pbufAlloc = 1) =>
        /\ last.out.frameLen = last.buf.length
        /\ last.out.copied = last.buf.length

\* C26: a text the parser accepts consists of exactly 6 groups of 1 or 2
\* hexadecimal digits separated by single hyphens; a text with a group of
\* three or more digits is rejected.
C26_DocumentedShape ==
    (last.op = "parse" /\ last.status = UA_STATUSCODE_GOOD) =>
        LET groups == SplitFrom(last.target, 1, << >>)
        IN  /\ Len(groups) = 6
            /\ \A k \in 1..Len(groups) :
                  IsHexNumber(groups[k]) /\ Len(groups[k]) \in 1..2

\* C27: when the parser fails, the destination buffer holds the bytes it
\* held before the call.
C27_NoPartialWrite ==
    (last.op = "parse" /\ last.status = UA_STATUSCODE_BADINTERNALERROR) =>
        last.mac = last.destinationMac

\* every call iicNs has made returned the good status
AllGood == \A k \in 1..Len(last.calls) : last.calls[k].status = UA_STATUSCODE_GOOD

\* the number of calls of that kind made for the node
CallCount(kind, node) ==
    Cardinality({ k \in 1..Len(last.calls) :
                    last.calls[k].kind = kind /\ last.calls[k].node = node })

\* C29: while every call succeeds, iicNs calls the begin step of nodes 0..91
\* in ascending order, then the finish step of nodes 91..0 in descending
\* order; when it returns, every node has been begun once and finished once
\* and the status returned is good.
C29_Ordering ==
    AllGood =>
        /\ \A k \in 1..Len(last.calls) :
              IF k <= 92
              THEN last.calls[k].kind = "begin" /\ last.calls[k].node = k - 1
              ELSE last.calls[k].kind = "finish" /\ last.calls[k].node = 184 - k
        /\ last.returned =>
              /\ Len(last.calls) = 184
              /\ \A n \in 0..91 : CallCount("begin", n) = 1 /\ CallCount("finish", n) = 1
              /\ last.ret = UA_STATUSCODE_GOOD

C29_Witness ==
    /\ last.returned
    /\ AllGood
    /\ Len(last.calls) = 184
    /\ last.calls[92].node = 91 /\ last.calls[93].node = 91
    /\ last.calls[184].kind = "finish" /\ last.calls[184].node = 0
    /\ last.ret = UA_STATUSCODE_GOOD

\* C30: a call of iicNs that returns a status other than good is the last
\* call iicNs makes, and iicNs returns that status; no finish step is run for
\* a node whose begin step did not succeed, and the nodes begun before a
\* failure get no finish step afterwards.
C30_ShortCircuit ==
    /\ \A k \in 1..Len(last.calls) :
          /\ last.calls[k].status # UA_STATUSCODE_GOOD => k = Len(last.calls)
          /\ last.calls[k].kind = "finish" =>
                \E j \in 1..(k - 1) :
                    /\ last.calls[j].kind = "begin"
                    /\ last.calls[j].node = last.calls[k].node
                    /\ last.calls[j].status = UA_STATUSCODE_GOOD
    /\ last.returned =>
          /\ last.calls # << >>
          /\ last.ret = last.calls[Len(last.calls)].status
          /\ ~AllGood => last.ret # UA_STATUSCODE_GOOD

C30_Witness ==
    /\ last.returned
    /\ last.ret = UA_STATUSCODE_BADOUTOFMEMORY
    /\ Len(last.calls) = 5
    /\ last.calls[5].kind = "begin" /\ last.calls[5].node = 4
    /\ \A n \in 0..3 : CallCount("begin", n) = 1 /\ CallCount("finish", n) = 0

====
